---------------------------- MODULE Spec2Model ----------------------------
(***************************************************************************)
(* Model of src/src/hooks/useTasks.ts: the task state manager hook.        *)
(*                                                                         *)
(* A "consumer" is one instance of the hook's React state (tasks, loading, *)
(* error, lastDeleted, lastDeletedToken).  A "trigger" is one run of the   *)
(* mount effect (lines 79-115) with its own isMounted flag; React runs the *)
(* cleanup of an effect before it runs the effect again on the same state  *)
(* (StrictMode remount, HMR), so a consumer has at most one trigger whose  *)
(* isMounted is true.  tasksFetchPromise is the module-level cached        *)
(* promise shared by every trigger of every consumer.                      *)
(*                                                                         *)
(* Every consumer operation is one event-loop task: React commits the      *)
(* queued state updates and rebuilds the callbacks before the next         *)
(* operation runs, so an action reads the committed state.  A token        *)
(* argument is NoToken (none given) or a non-empty string, as deleteTask   *)
(* issues them.                                                            *)
(*                                                                         *)
(* Values: ids and tokens are strings in the code and integers here        *)
(* (caller-chosen ids are ExplicitIds, crypto.randomUUID() values lie above *)
(* them, the fallback generator's ids are negative).  Timestamps are       *)
(* integers counted in days, an ISO string being the timestamp it encodes. *)
(* null / undefined are NoTask, NoToken, NoId, NoTime, NoError, NoPromise. *)
(***************************************************************************)
EXTENDS Integers, Sequences, FiniteSets, TLC

VARIABLES
    tasksFetchPromise,  \* line 16: the cached promise (NoPromise or an index of promises)
    promises,           \* every promise created at line 83, in creation order
    triggers,           \* every run of the effect, in order
    tasks,              \* line 43, per consumer
    loading,            \* line 44, per consumer
    error,              \* line 45, per consumer
    lastDeleted,        \* line 46, per consumer
    lastDeletedToken,   \* line 48, per consumer
    uuids,              \* number of crypto.randomUUID() values drawn so far
    issued,             \* history: per consumer, the deletions that issued a token
    op,                 \* history: the step taken last
    opCount             \* history: number of consumer operations so far

vars == <<tasksFetchPromise, promises, triggers, tasks, loading, error,
          lastDeleted, lastDeletedToken, uuids, issued, op, opCount>>

---------------------------------------------------------------------------
(* Bounds of the model *)

MaxTriggers == 3
MaxPromises == 2
MaxUUIDs == 3
MaxOps == 3

(* Program constants *)

FallbackCount == 50
Epoch == 60
NaN == -999

Consumers == {1, 2}
ExplicitIds == {1, 2}

(* Date.now(): the values a call may return. *)
Times == {Epoch, Epoch + 1}

NoPromise == 0
NoToken == 0
NoId == 0
NoTime == 0
InvalidTime == -1
NoTask == <<>>
NoError == "<null>"

(* crypto.randomUUID(): the n-th value drawn; distinct from every other    *)
(* value drawn and from the caller-chosen ids.                             *)
randomUUID(n) == Cardinality(ExplicitIds) + n

Tokens == {NoToken} \cup {randomUUID(n) : n \in 1..MaxUUIDs}

---------------------------------------------------------------------------
(* Raw records of tasks.json and the Task Normalizer (lines 50-74) *)

RawRecord(isNull, id, status, timeTaken, createdAt, completedAt) ==
    [isNull |-> isNull, id |-> id, status |-> status, timeTaken |-> timeTaken,
     createdAt |-> createdAt, completedAt |-> completedAt]

RawA == RawRecord(FALSE, 1, "Todo", 4, 50, NoTime)
RawB == RawRecord(FALSE, 2, "Done", 0, NoTime, NoTime)
RawDup == RawRecord(FALSE, 1, "Done", NaN, 55, 58)
RawNoId == RawRecord(FALSE, NoId, "", NaN, NoTime, NoTime)
RawBadDate == RawRecord(FALSE, 2, "Todo", 2, InvalidTime, NoTime)
RawNull == RawRecord(TRUE, NoId, "", NaN, NoTime, NoTime)

(* A response body: res.json() is an array of records or something else. *)
Body(isArray, items) == [isArray |-> isArray, items |-> items]

Bodies ==
    { Body(TRUE, <<RawA, RawB>>),
      Body(TRUE, <<RawA, RawDup>>),
      Body(TRUE, <<RawNoId>>),
      Body(TRUE, <<RawA, RawBadDate>>),
      Body(TRUE, <<RawNull>>),
      Body(TRUE, <<>>),
      Body(FALSE, <<>>) }

Task(id, status, timeTaken, createdAt, completedAt) ==
    [id |-> id, status |-> status, timeTaken |-> timeTaken,
     createdAt |-> createdAt, completedAt |-> completedAt]

(* Comparisons of a JavaScript number with 0: false when the number is NaN. *)
GtZero(x) == x # NaN /\ x > 0
LeqZero(x) == x # NaN /\ x <= 0

(* Line 52: t.createdAt on null or undefined throws a TypeError.           *)
(* Lines 59, 70: toISOString() of an Invalid Date throws a RangeError.     *)
RecordThrows(t) == t.isNull \/ t.createdAt = InvalidTime

(* Number of ids line 63 draws for the records before index idx. *)
RECURSIVE DrawnBefore(_, _)
DrawnBefore(input, idx) ==
    IF idx <= 1 THEN 0
    ELSE DrawnBefore(input, idx - 1)
         + (IF input[idx - 1].id = NoId THEN 1 ELSE 0)

(* Lines 53-72, for the record at 1-based position idx (idx - 1 in the     *)
(* code), with n uuids drawn before the call and now = Date.now().         *)
normalizeRecord(t, idx, input, n, now) ==
    LET created == IF t.createdAt # NoTime THEN t.createdAt ELSE now - idx
        completed == IF t.completedAt # NoTime THEN t.completedAt
                     ELSE IF t.status = "Done" THEN created + 1 ELSE NoTime
    IN Task(IF t.id # NoId THEN t.id
            ELSE randomUUID(n + DrawnBefore(input, idx) + 1),
            IF t.status # "" THEN t.status ELSE "Todo",
            IF GtZero(t.timeTaken) THEN t.timeTaken ELSE 1,
            created,
            completed)

(* Lines 50-74: the result of normalizeTasks, or a throw. *)
normalizeTasks(body, n, now) ==
    LET input == IF body.isArray THEN body.items ELSE <<>>
    IN IF \E i \in 1..Len(input) : RecordThrows(input[i])
       THEN [threw |-> TRUE, value |-> <<>>, drawn |-> 0]
       ELSE [threw |-> FALSE,
             value |-> [i \in 1..Len(input) |->
                          normalizeRecord(input[i], i, input, n, now)],
             drawn |-> DrawnBefore(input, Len(input) + 1)]

(* generateSalesTasks(50) of @/utils/seed: n synthetic Task-shaped records. *)
generateSalesTasks(n, now) ==
    [i \in 1..n |-> Task(0 - i, "Todo", 1, now, NoTime)]

---------------------------------------------------------------------------
(* The load (lines 83-97) *)

Outcomes ==
    {[kind |-> "network", body |-> Body(FALSE, <<>>)],
     [kind |-> "status", body |-> Body(FALSE, <<>>)]}
    \cup {[kind |-> "ok", body |-> b] : b \in Bodies}

(* Line 90: the fallback replaces a normalized list with no record. *)
FinalData(normalized, fallback) ==
    IF Len(normalized) > 0 THEN normalized ELSE fallback

(* Lines 85-96: what the async function settles to for a fetch outcome. *)
fetchTasks(outcome, n, now) ==
    IF outcome.kind = "network"
    THEN [ok |-> FALSE, value |-> <<>>, message |-> "Failed to fetch", drawn |-> 0]
    ELSE IF outcome.kind = "status"
    THEN [ok |-> FALSE, value |-> <<>>,
          message |-> "Failed to load tasks.json (404)", drawn |-> 0]
    ELSE LET normalized == normalizeTasks(outcome.body, n, now)
         IN IF normalized.threw
            THEN [ok |-> FALSE, value |-> <<>>,
                  message |-> "normalizeTasks threw", drawn |-> 0]
            ELSE [ok |-> TRUE,
                  value |-> FinalData(normalized.value,
                                     generateSalesTasks(FallbackCount, now)),
                  message |-> NoError,
                  drawn |-> normalized.drawn]

(* Mutant: the effect starts a request on every run. *)
NeedsFetch_always(handle) == TRUE

(* Line 82: the effect starts a request only when no promise is cached. *)
NeedsFetch(handle) == handle = NoPromise

(* Mutant: the catch block does not reset the cached promise. *)
HandleAfterSettle_keep(handle, ok) == handle

(* Mutant: the cached promise is reset after a success too. *)
HandleAfterSettle_reset(handle, ok) == NoPromise

(* Lines 90-95: the cached promise after the async function settles: kept  *)
(* on success, reset to null in the catch block.                           *)
HandleAfterSettle(handle, ok) == IF ok THEN handle ELSE NoPromise

(* Mutant: a waiter writes whatever its isMounted flag says. *)
Interested_always(trigger) == TRUE

(* Lines 104, 106, 108: a waiter writes only while its isMounted is true. *)
Interested(trigger) == trigger.isMounted

Pending == {p \in 1..Len(promises) : promises[p].status = "pending"}

MountedTriggers(c) ==
    {t \in 1..Len(triggers) : triggers[t].consumer = c /\ triggers[t].isMounted}

---------------------------------------------------------------------------
(* The consumer operations (lines 140-198) as functions of the state *)

(* The argument of addTask: id is NoId when the caller gives none. *)
NewTask(id, status, timeTaken) ==
    [id |-> id, status |-> status, timeTaken |-> timeTaken]

(* The argument of updateTask: has holds the names of the fields given. *)
Patch(has, id, status, timeTaken, completedAt) ==
    [has |-> has, id |-> id, status |-> status, timeTaken |-> timeTaken,
     completedAt |-> completedAt]

(* Lines 141-147: uuid is the value line 142 draws when no id is given. *)
addTask(prev, task, uuid, now) ==
    Append(prev,
           Task(IF task.id # NoId THEN task.id ELSE uuid,
                task.status,
                IF LeqZero(task.timeTaken) THEN 1 ELSE task.timeTaken,
                now,
                IF task.status = "Done" THEN now ELSE NoTime))

(* Line 154: { ...t, ...patch } *)
Merge(t, patch) ==
    Task(IF "id" \in patch.has THEN patch.id ELSE t.id,
         IF "status" \in patch.has THEN patch.status ELSE t.status,
         IF "timeTaken" \in patch.has THEN patch.timeTaken ELSE t.timeTaken,
         t.createdAt,
         IF "completedAt" \in patch.has THEN patch.completedAt ELSE t.completedAt)

(* Mutant: completedAt is dropped when the merged status is not Done. *)
updateOne_clearOnReopen(t, id, patch, now) ==
    IF t.id # id THEN t
    ELSE LET merged == Merge(t, patch)
             stamped == IF merged.status # "Done"
                        THEN [merged EXCEPT !.completedAt = NoTime]
                        ELSE IF t.status # "Done" /\ merged.completedAt = NoTime
                        THEN [merged EXCEPT !.completedAt = now] ELSE merged
         IN IF LeqZero(stamped.timeTaken)
            THEN [stamped EXCEPT !.timeTaken = 1] ELSE stamped

(* Mutant: completedAt is stamped whenever the merged status is Done. *)
updateOne_restamp(t, id, patch, now) ==
    IF t.id # id THEN t
    ELSE LET merged == Merge(t, patch)
             stamped == IF merged.status = "Done"
                        THEN [merged EXCEPT !.completedAt = now] ELSE merged
         IN IF LeqZero(stamped.timeTaken)
            THEN [stamped EXCEPT !.timeTaken = 1] ELSE stamped

(* Lines 153-159 for one task. *)
updateOne(t, id, patch, now) ==
    IF t.id # id THEN t
    ELSE LET merged == Merge(t, patch)
             stamped == IF t.status # "Done" /\ merged.status = "Done"
                           /\ merged.completedAt = NoTime
                        THEN [merged EXCEPT !.completedAt = now] ELSE merged
         IN IF LeqZero(stamped.timeTaken)
            THEN [stamped EXCEPT !.timeTaken = 1] ELSE stamped

(* Lines 151-161 *)
updateTask(prev, id, patch, now) ==
    [i \in 1..Len(prev) |-> updateOne(prev[i], id, patch, now)]

(* Line 166: prev.find(t => t.id === id) || null *)
FindTask(prev, id) ==
    IF \E i \in 1..Len(prev) : prev[i].id = id
    THEN <<prev[CHOOSE i \in 1..Len(prev) :
                   /\ prev[i].id = id
                   /\ \A j \in 1..(i - 1) : prev[j].id # id]>>
    ELSE NoTask

(* Line 171: prev.filter(t => t.id !== id) *)
RECURSIVE FilterOut(_, _)
FilterOut(prev, id) ==
    IF prev = <<>> THEN <<>>
    ELSE IF Head(prev).id = id THEN FilterOut(Tail(prev), id)
    ELSE <<Head(prev)>> \o FilterOut(Tail(prev), id)

(* Lines 169-170: the buffer deleteTask leaves, given the task found (or  *)
(* NoTask) and the token drawn at line 168.                               *)
BufferAfterDelete(target, token, oldDeleted, oldToken) ==
    [task |-> target, token |-> token]

(* Mutant: undoDelete does not compare the token. *)
UndoAborts_ignoreToken(deleted, current, token) == deleted = NoTask

(* Lines 177-181: undoDelete returns without restoring. *)
UndoAborts(deleted, current, token) ==
    \/ deleted = NoTask
    \/ (token # NoToken /\ token # current)

(* Mutant: clearLastDeleted does not compare the token. *)
ClearAborts_never(current, token) == FALSE

(* Lines 191-194: clearLastDeleted returns without clearing. *)
ClearAborts(current, token) == token # NoToken /\ token # current

(* Mutant: only the token is cleared, the buffered task is kept. *)
EmptiedBuffer_keepTask(deleted, current) == [task |-> deleted, token |-> NoToken]

(* Lines 184-185 and 196-197: the buffer undoDelete and clearLastDeleted   *)
(* leave when they do not return early.                                    *)
EmptiedBuffer(deleted, current) == [task |-> NoTask, token |-> NoToken]

(* Line 183 *)
Restore(prev, deleted) == prev \o deleted

---------------------------------------------------------------------------
(* History of the last step *)

(* acted: the step did not return early; before: the task list a          *)
(* deleteTask started from; arg: the task given to addTask, the patch      *)
(* given to updateTask, the fetch outcome of a settled request.            *)
Op(name, c, t, id, token, acted, before, arg) ==
    [name |-> name, c |-> c, t |-> t, id |-> id, token |-> token,
     acted |-> acted, before |-> before, arg |-> arg]

NoArg == [kind |-> "none"]

(* The deletion held in the buffer meets its fate. *)
Settled(deletions, fate) ==
    {IF d.fate = "buffered" THEN [d EXCEPT !.fate = fate] ELSE d : d \in deletions}

Init ==
    /\ tasksFetchPromise = NoPromise
    /\ promises = <<>>
    /\ triggers = <<>>
    /\ tasks = [c \in Consumers |-> <<>>]
    /\ loading = [c \in Consumers |-> TRUE]
    /\ error = [c \in Consumers |-> NoError]
    /\ lastDeleted = [c \in Consumers |-> NoTask]
    /\ lastDeletedToken = [c \in Consumers |-> NoToken]
    /\ uuids = 0
    /\ issued = [c \in Consumers |-> {}]
    /\ op = Op("init", 0, 0, NoId, NoToken, FALSE, <<>>, NoArg)
    /\ opCount = 0

(* Lines 79-115: one run of the effect for consumer c. *)
Effect(c) ==
    /\ Len(triggers) < MaxTriggers
    /\ MountedTriggers(c) = {}
    /\ IF NeedsFetch(tasksFetchPromise)
       THEN /\ Len(promises) < MaxPromises
            /\ promises' = Append(promises,
                   [status |-> "pending", value |-> <<>>, message |-> NoError])
            /\ tasksFetchPromise' = Len(promises) + 1
       ELSE UNCHANGED <<promises, tasksFetchPromise>>
    /\ triggers' = Append(triggers,
           [consumer |-> c, promise |-> tasksFetchPromise', isMounted |-> TRUE,
            pc |-> "waiting", assigned |-> FALSE])
    /\ op' = Op("effect", c, Len(triggers) + 1, NoId, NoToken,
                NeedsFetch(tasksFetchPromise), <<>>, NoArg)
    /\ UNCHANGED <<tasks, loading, error, lastDeleted, lastDeletedToken,
                   uuids, issued, opCount>>

(* Lines 112-114: the cleanup of trigger t. *)
Cleanup(t) ==
    /\ triggers[t].isMounted
    /\ triggers' = [triggers EXCEPT ![t].isMounted = FALSE]
    /\ op' = Op("cleanup", triggers[t].consumer, t, NoId, NoToken, TRUE, <<>>,
                NoArg)
    /\ UNCHANGED <<tasksFetchPromise, promises, tasks, loading, error,
                   lastDeleted, lastDeletedToken, uuids, issued, opCount>>

(* Lines 83-97: the request of promise p comes back and the async function *)
(* runs to its return or through its catch block.                          *)
Settle(p, outcome, now) ==
    LET r == fetchTasks(outcome, uuids, now)
    IN /\ promises[p].status = "pending"
       /\ uuids + r.drawn <= MaxUUIDs
       /\ promises' = [promises EXCEPT ![p] =
              [status |-> IF r.ok THEN "fulfilled" ELSE "rejected",
               value |-> r.value, message |-> r.message]]
       /\ tasksFetchPromise' = HandleAfterSettle(tasksFetchPromise, r.ok)
       /\ uuids' = uuids + r.drawn
       /\ op' = Op(IF r.ok THEN "resolve" ELSE "reject", 0, p, NoId, NoToken,
                   TRUE, <<>>, outcome)
       /\ UNCHANGED <<triggers, tasks, loading, error, lastDeleted,
                      lastDeletedToken, issued, opCount>>

(* Mutant: the loaded data is put in front of the list the consumer has. *)
AssignLoaded_merge(prev, finalData) == finalData \o prev

(* Line 104: setTasks(finalData) replaces the list the consumer has. *)
AssignLoaded(prev, finalData) == finalData

(* Lines 101-110: the waiter of trigger t resumes after its await. *)
Resume(t) ==
    LET c == triggers[t].consumer
        p == promises[triggers[t].promise]
        live == Interested(triggers[t])
    IN /\ triggers[t].pc = "waiting"
       /\ p.status # "pending"
       /\ tasks' = IF live /\ p.status = "fulfilled"
                   THEN [tasks EXCEPT ![c] = AssignLoaded(@, p.value)]
                   ELSE tasks
       /\ error' = IF live /\ p.status = "rejected"
                   THEN [error EXCEPT ![c] = p.message] ELSE error
       /\ loading' = IF live THEN [loading EXCEPT ![c] = FALSE] ELSE loading
       /\ triggers' = [triggers EXCEPT ![t].pc = "done",
                          ![t].assigned = live /\ p.status = "fulfilled"]
       /\ op' = Op("resume", c, t, NoId, NoToken, live, <<>>, NoArg)
       /\ UNCHANGED <<tasksFetchPromise, promises, lastDeleted,
                      lastDeletedToken, uuids, issued, opCount>>

(* The hook of consumer c has rendered: its operations can be called. *)
Rendered(c) == \E t \in 1..Len(triggers) : triggers[t].consumer = c

LoadUnchanged == UNCHANGED <<tasksFetchPromise, promises, triggers, loading, error>>

(* Lines 140-148 *)
AddTask(c, task, now) ==
    /\ Rendered(c)
    /\ task.id = NoId => uuids < MaxUUIDs
    /\ tasks' = [tasks EXCEPT ![c] = addTask(@, task, randomUUID(uuids + 1), now)]
    /\ uuids' = IF task.id = NoId THEN uuids + 1 ELSE uuids
    /\ op' = Op("addTask", c, 0, task.id, NoToken, TRUE, <<>>, task)
    /\ opCount' = opCount + 1
    /\ LoadUnchanged
    /\ UNCHANGED <<lastDeleted, lastDeletedToken, issued>>

(* Lines 150-162 *)
UpdateTask(c, id, patch, now) ==
    /\ Rendered(c)
    /\ tasks' = [tasks EXCEPT ![c] = updateTask(@, id, patch, now)]
    /\ op' = Op("updateTask", c, 0, id, NoToken, FindTask(tasks[c], id) # NoTask,
                <<>>, patch)
    /\ opCount' = opCount + 1
    /\ LoadUnchanged
    /\ UNCHANGED <<lastDeleted, lastDeletedToken, uuids, issued>>

(* Mutant: every deletion gets the token of the first one. *)
NewToken_reused(n) == randomUUID(1)

(* Line 168: the token of a deletion is a UUID drawn for it; n UUIDs have *)
(* been drawn before.                                                      *)
NewToken(n) == randomUUID(n + 1)

(* Lines 164-173 *)
DeleteTask(c, id) ==
    LET target == FindTask(tasks[c], id)
        token == NewToken(uuids)
        buffer == BufferAfterDelete(target, token, lastDeleted[c], lastDeletedToken[c])
    IN /\ Rendered(c)
       /\ uuids < MaxUUIDs
       /\ uuids' = uuids + 1
       /\ lastDeleted' = [lastDeleted EXCEPT ![c] = buffer.task]
       /\ lastDeletedToken' = [lastDeletedToken EXCEPT ![c] = buffer.token]
       /\ tasks' = [tasks EXCEPT ![c] = FilterOut(@, id)]
       /\ issued' = [issued EXCEPT ![c] =
              IF lastDeleted'[c] = lastDeleted[c] /\ lastDeletedToken'[c] = lastDeletedToken[c]
              THEN @
              ELSE Settled(@, "overwritten")
                   \cup (IF target = NoTask THEN {}
                         ELSE {[token |-> token, task |-> target[1], fate |-> "buffered"]})]
       /\ op' = Op("deleteTask", c, 0, id, NoToken, target # NoTask, tasks[c],
                   NoArg)
       /\ opCount' = opCount + 1
       /\ LoadUnchanged

(* Lines 175-186 *)
UndoDelete(c, token) ==
    LET aborts == UndoAborts(lastDeleted[c], lastDeletedToken[c], token)
        buffer == EmptiedBuffer(lastDeleted[c], lastDeletedToken[c])
    IN /\ Rendered(c)
       /\ IF aborts
          THEN UNCHANGED <<tasks, lastDeleted, lastDeletedToken, issued>>
          ELSE /\ tasks' = [tasks EXCEPT ![c] = Restore(@, lastDeleted[c])]
               /\ lastDeleted' = [lastDeleted EXCEPT ![c] = buffer.task]
               /\ lastDeletedToken' = [lastDeletedToken EXCEPT ![c] = buffer.token]
               /\ issued' = [issued EXCEPT ![c] = Settled(@, "restored")]
       /\ op' = Op("undoDelete", c, 0, NoId, token, ~aborts, <<>>, NoArg)
       /\ opCount' = opCount + 1
       /\ LoadUnchanged
       /\ UNCHANGED uuids

(* Lines 188-198 *)
ClearLastDeleted(c, token) ==
    LET aborts == ClearAborts(lastDeletedToken[c], token)
        buffer == EmptiedBuffer(lastDeleted[c], lastDeletedToken[c])
    IN /\ Rendered(c)
       /\ IF aborts
          THEN UNCHANGED <<lastDeleted, lastDeletedToken, issued>>
          ELSE /\ lastDeleted' = [lastDeleted EXCEPT ![c] = buffer.task]
               /\ lastDeletedToken' = [lastDeletedToken EXCEPT ![c] = buffer.token]
               /\ issued' = [issued EXCEPT ![c] = Settled(@, "confirmed")]
       /\ op' = Op("clearLastDeleted", c, 0, NoId, token, ~aborts, <<>>, NoArg)
       /\ opCount' = opCount + 1
       /\ LoadUnchanged
       /\ UNCHANGED <<tasks, uuids>>

---------------------------------------------------------------------------
(* Inputs *)

NewTasks ==
    {NewTask(id, status, timeTaken) :
        id \in {NoId, 1}, status \in {"Todo", "Done"}, timeTaken \in {-5, 2}}

Patches ==
    { Patch({"status"}, NoId, "Done", 0, NoTime),
      Patch({"status"}, NoId, "Todo", 0, NoTime),
      Patch({"timeTaken"}, NoId, "", 0, NoTime),
      Patch({"id"}, 2, "", 0, NoTime),
      Patch({"completedAt"}, NoId, "", 0, NoTime) }

(* The inputs of the specification of the edits: also a timeTaken that is *)
(* not a number, which a form field parsed with Number() supplies.        *)
EditTasks ==
    NewTasks \cup {NewTask(NoId, status, NaN) : status \in {"Todo", "Done"}}

EditPatches ==
    Patches \cup {Patch({"timeTaken"}, NoId, "", NaN, NoTime),
                  Patch({"status", "completedAt"}, NoId, "Done", 0, Epoch - 1)}

(* The fetch outcomes of the specification of one consumer: a failure of  *)
(* the request and a body that normalizes.                                 *)
SoloOutcomes ==
    {o \in Outcomes : \/ o.kind = "network"
                      \/ (o.kind = "ok" /\ o.body = Body(TRUE, <<RawA, RawB>>))}

(* Specification of the load coordinator: every consumer and trigger, the  *)
(* shared promise, every fetch outcome, failure and retry.                 *)
Next ==
    \/ \E c \in Consumers : Effect(c)
    \/ \E t \in 1..Len(triggers) : Cleanup(t)
    \/ \E p \in 1..Len(promises), outcome \in Outcomes :
          Settle(p, outcome, Epoch)
    \/ \E t \in 1..Len(triggers) : Resume(t)

Spec == Init /\ [][Next]_vars

(* Specification of one consumer with one trigger, and up to MaxOps        *)
(* consumer operations with every input, before and after the load         *)
(* resolves or fails.                                                      *)
SoloNext ==
    \/ /\ triggers = <<>>
       /\ Effect(1)
    \/ \E p \in 1..Len(promises), outcome \in SoloOutcomes :
          Settle(p, outcome, Epoch)
    \/ \E t \in 1..Len(triggers) : Resume(t)
    \/ /\ opCount < MaxOps
       /\ \/ \E task \in NewTasks, now \in Times : AddTask(1, task, now)
          \/ \E id \in ExplicitIds, patch \in Patches, now \in Times :
                UpdateTask(1, id, patch, now)
          \/ \E id \in ExplicitIds : DeleteTask(1, id)
          \/ \E token \in Tokens : UndoDelete(1, token)
          \/ \E token \in Tokens : ClearLastDeleted(1, token)

SoloSpec == Init /\ [][SoloNext]_vars

(* Specification of the edits of one consumer: one trigger, a load that   *)
(* resolves with two records, and up to MaxOps of addTask, updateTask and  *)
(* deleteTask with every input, before and after the load resolves.        *)
EditNext ==
    \/ /\ triggers = <<>>
       /\ Effect(1)
    \/ \E p \in 1..Len(promises) :
          Settle(p, [kind |-> "ok", body |-> Body(TRUE, <<RawA, RawB>>)], Epoch)
    \/ \E t \in 1..Len(triggers) : Resume(t)
    \/ /\ opCount < MaxOps
       /\ \/ \E task \in EditTasks, now \in Times : AddTask(1, task, now)
          \/ \E id \in ExplicitIds, patch \in EditPatches, now \in Times :
                UpdateTask(1, id, patch, now)
          \/ \E id \in ExplicitIds : DeleteTask(1, id)

EditSpec == Init /\ [][EditNext]_vars

---------------------------------------------------------------------------
(* Claims about the load coordinator, checked under Spec *)

Waiters(p) ==
    {t \in 1..Len(triggers) : triggers[t].promise = p /\ triggers[t].pc = "waiting"}

Assignments(c) ==
    {t \in 1..Len(triggers) : triggers[t].consumer = c /\ triggers[t].assigned}

(* C1: at most one request is in flight at any time; a run of the effect   *)
(* that starts while the cached promise is pending issues no request of    *)
(* its own and waits on the cached promise, so every trigger waiting on a  *)
(* pending promise waits on the cached one.                                *)
C1_SingleRequestInFlight ==
    [][ /\ Cardinality(Pending') <= 1
        /\ \A t \in 1..Len(triggers') :
              promises'[triggers'[t].promise].status = "pending"
                 => triggers'[t].promise = tasksFetchPromise'
        /\ (op'.name = "effect" /\ Pending # {})
              => /\ Len(promises') = Len(promises)
                 /\ tasksFetchPromise' = tasksFetchPromise
                 /\ triggers'[op'.t].promise = tasksFetchPromise
                 /\ ~op'.acted ]_vars

(* C1 witness: three triggers wait on the one pending request. *)
C1_Witness ==
    /\ Len(promises) = 1
    /\ promises[1].status = "pending"
    /\ Cardinality(Waiters(1)) >= 3
    /\ op.name = "effect"

(* C2: when the request fails the cached promise is reset to null; every   *)
(* interested waiter of the failed promise gets its message as error and   *)
(* stops loading, and none assigns tasks; the next run of the effect       *)
(* issues a fresh request and waits on it, not on the failed promise.      *)
C2_FailureResetsAndRetries ==
    [][ /\ op'.name = "reject"
           => /\ tasksFetchPromise' = NoPromise
              /\ promises'[op'.t].status = "rejected"
        /\ (op'.name = "resume" /\ promises[triggers[op'.t].promise].status = "rejected")
           => /\ tasks' = tasks
              /\ triggers[op'.t].isMounted
                    => /\ error'[op'.c] = promises[triggers[op'.t].promise].message
                       /\ error'[op'.c] # NoError
                       /\ loading'[op'.c] = FALSE
        /\ (op'.name = "effect" /\ promises # <<>>
               /\ promises[Len(promises)].status = "rejected")
           => /\ Len(promises') = Len(promises) + 1
              /\ promises'[Len(promises')].status = "pending"
              /\ tasksFetchPromise' = Len(promises')
              /\ triggers'[op'.t].promise = Len(promises') ]_vars

(* C2 witness: both consumers saw the failure of the first request and a   *)
(* later run of the effect has issued the second request.                  *)
C2_Witness ==
    /\ Len(promises) = 2
    /\ promises[1].status = "rejected"
    /\ \A c \in Consumers : error[c] = promises[1].message /\ ~loading[c]
    /\ op.name = "effect"
    /\ tasksFetchPromise = 2

(* C3 (as claimed): a consumer is loading with no error, or has stopped    *)
(* loading with no error and the loaded data as its tasks, or has stopped  *)
(* loading with an error message and an empty task list.                   *)
C3_ExactlyOneOutcome ==
    \A c \in Consumers :
        \/ loading[c] /\ error[c] = NoError
        \/ /\ ~loading[c] /\ error[c] = NoError
           /\ \E p \in 1..Len(promises) :
                 promises[p].status = "fulfilled" /\ tasks[c] = promises[p].value
        \/ ~loading[c] /\ error[c] # NoError /\ tasks[c] = <<>>

(* C4: the waiter of a trigger whose cleanup has run changes no consumer's *)
(* tasks, loading or error when it resumes; a cleanup changes neither the  *)
(* promises nor the cached promise nor any other trigger; an interested    *)
(* waiter still receives the result of the shared promise.                 *)
C4_TornDownWaiterWritesNothing ==
    [][ /\ (op'.name = "resume" /\ ~triggers[op'.t].isMounted)
           => UNCHANGED <<tasks, loading, error>>
        /\ op'.name = "cleanup"
           => /\ UNCHANGED <<tasksFetchPromise, promises, tasks, loading, error>>
              /\ \A t \in 1..Len(triggers) : t # op'.t => triggers'[t] = triggers[t]
        /\ (op'.name = "resume" /\ triggers[op'.t].isMounted)
           => /\ loading'[op'.c] = FALSE
              /\ promises[triggers[op'.t].promise].status = "fulfilled"
                    => tasks'[op'.c] = promises[triggers[op'.t].promise].value
              /\ promises[triggers[op'.t].promise].status = "rejected"
                    => error'[op'.c] = promises[triggers[op'.t].promise].message ]_vars

(* C4 witness: the waiter of a torn-down consumer has resumed on a         *)
(* fulfilled promise and left its consumer untouched, while the interested *)
(* waiter of the other consumer received the data of the same promise.     *)
C4_Witness ==
    /\ op.name = "resume"
    /\ ~triggers[op.t].isMounted
    /\ promises[triggers[op.t].promise].status = "fulfilled"
    /\ loading[op.c] /\ tasks[op.c] = <<>> /\ error[op.c] = NoError
    /\ \E t \in 1..Len(triggers) :
          /\ triggers[t].consumer # op.c
          /\ triggers[t].promise = triggers[op.t].promise
          /\ triggers[t].isMounted /\ triggers[t].pc = "done"
          /\ tasks[triggers[t].consumer] = promises[triggers[t].promise].value
          /\ ~loading[triggers[t].consumer]

(* C5 (as claimed): the task list of a consumer is assigned from the load  *)
(* at most once, and no request is issued after a successful load.         *)
C5_PopulatedOnce ==
    /\ \A c \in Consumers : Cardinality(Assignments(c)) <= 1
    /\ \A p \in 1..Len(promises) :
          promises[p].status = "fulfilled" => p = Len(promises)

(* C5 (amended): once a promise is fulfilled no request is ever issued     *)
(* again and the cached promise stays that promise; every interested       *)
(* waiter that resumes afterwards assigns the task list again, to the data *)
(* of that one promise.                                                    *)
C5_OneRequestManyAssignments ==
    [][ /\ (\E p \in 1..Len(promises) : promises[p].status = "fulfilled")
           => /\ promises' = promises
              /\ tasksFetchPromise' = tasksFetchPromise
              /\ tasksFetchPromise # NoPromise
              /\ promises[tasksFetchPromise].status = "fulfilled"
        /\ (op'.name = "resume" /\ triggers[op'.t].isMounted
               /\ promises[triggers[op'.t].promise].status = "fulfilled")
           => /\ tasksFetchPromise # NoPromise
              /\ tasks'[op'.c] = promises[tasksFetchPromise].value
              /\ triggers'[op'.t].assigned ]_vars

(* C5 witness: a later trigger of a consumer whose list was already        *)
(* populated has assigned the list a second time, with one request issued. *)
C5_Witness ==
    /\ Len(promises) = 1
    /\ op.name = "resume"
    /\ Cardinality(Assignments(op.c)) >= 2
    /\ tasks[op.c] = promises[1].value

---------------------------------------------------------------------------
(* Claims about the delete/undo protocol, checked under SoloSpec *)

Count(seq, x) == Cardinality({i \in 1..Len(seq) : seq[i] = x})

(* The two lists hold the same tasks, each as many times. *)
SameTasks(a, b) ==
    /\ Len(a) = Len(b)
    /\ \A i \in 1..Len(a) : Count(a, a[i]) = Count(b, a[i])

HasId(seq, id) == \E i \in 1..Len(seq) : seq[i].id = id

Buffer == <<lastDeleted, lastDeletedToken>>

(* C6 (as claimed): deleteTask(id) of an id in the list, followed at once  *)
(* by undoDelete() with no token, leaves a list holding the same tasks as  *)
(* before the delete with the deleted task last, and an Empty buffer.      *)
C6_DeleteThenUndoRestores ==
    [][ (op.name = "deleteTask" /\ op.acted /\ op'.name = "undoDelete"
            /\ op'.c = op.c /\ op'.token = NoToken)
        => /\ SameTasks(tasks'[op.c], op.before)
           /\ tasks'[op.c] # <<>>
           /\ <<tasks'[op.c][Len(tasks'[op.c])]>> = FindTask(op.before, op.id)
           /\ lastDeleted'[op.c] = NoTask
           /\ lastDeletedToken'[op.c] = NoToken ]_vars

(* C7: undoDelete with a token that differs from the buffered token        *)
(* changes neither the task list nor the buffer; and the token a delete    *)
(* issues differs from the token of every earlier deletion, so the token   *)
(* issued for A mismatches once B has been deleted.                        *)
C7_UndoWithStaleTokenIsNoOp ==
    [][ /\ (op'.name = "undoDelete" /\ op'.token # NoToken
               /\ op'.token # lastDeletedToken[op'.c])
           => /\ UNCHANGED <<tasks, lastDeleted, lastDeletedToken>>
              /\ ~op'.acted
        /\ op'.name = "deleteTask"
           => \A d \in issued[op'.c] : d.token # lastDeletedToken'[op'.c] ]_vars

(* C7 witness: A then B were deleted, undoDelete was called with the token *)
(* issued for A; B is still buffered and the list holds neither.           *)
C7_Witness ==
    /\ op.name = "undoDelete"
    /\ ~op.acted
    /\ \E dA, dB \in issued[op.c] :
          /\ dA.fate = "overwritten" /\ dB.fate = "buffered"
          /\ op.token = dA.token
          /\ lastDeleted[op.c] = <<dB.task>>
          /\ lastDeletedToken[op.c] = dB.token
          /\ ~HasId(tasks[op.c], dA.task.id)
          /\ ~HasId(tasks[op.c], dB.task.id)

(* C8: a clearLastDeleted that does not return early leaves the buffer     *)
(* Empty; an undoDelete that follows it, with any token or none, changes   *)
(* neither the task list nor the buffer; and undoDelete with the token of  *)
(* a confirmed deletion never changes them.                                *)
C8_ConfirmedDeletionCannotBeUndone ==
    [][ /\ (op'.name = "clearLastDeleted" /\ op'.acted)
           => lastDeleted'[op'.c] = NoTask /\ lastDeletedToken'[op'.c] = NoToken
        /\ (op.name = "clearLastDeleted" /\ op.acted
               /\ op'.name = "undoDelete" /\ op'.c = op.c)
           => /\ UNCHANGED <<tasks, lastDeleted, lastDeletedToken>>
              /\ ~op'.acted
        /\ (op'.name = "undoDelete"
               /\ \E d \in issued[op'.c] :
                     d.fate = "confirmed" /\ d.token = op'.token)
           => UNCHANGED <<tasks, lastDeleted, lastDeletedToken>> ]_vars

(* C8 witness: A was deleted and confirmed, undoDelete was called with the *)
(* token issued for A; the buffer is Empty and A is not in the list.       *)
C8_Witness ==
    /\ op.name = "undoDelete"
    /\ ~op.acted
    /\ lastDeleted[op.c] = NoTask
    /\ lastDeletedToken[op.c] = NoToken
    /\ \E d \in issued[op.c] :
          /\ d.fate = "confirmed"
          /\ op.token = d.token
          /\ ~HasId(tasks[op.c], d.task.id)

(* C9 (as claimed): deleteTask(id) with an id that is not in the list      *)
(* changes neither the task list nor the buffer.                           *)
C9_DeleteOfMissingIdIsNoOp ==
    [][ (op'.name = "deleteTask" /\ ~HasId(tasks[op'.c], op'.id))
        => UNCHANGED <<tasks, lastDeleted, lastDeletedToken>> ]_vars

(* C10: clearLastDeleted never changes the task list; with a token that    *)
(* differs from the buffered token it leaves the buffer unchanged; with    *)
(* the buffered token or with no token it leaves the buffer Empty.         *)
C10_ClearLastDeletedFrame ==
    [][ op'.name = "clearLastDeleted"
        => /\ tasks' = tasks
           /\ IF op'.token # NoToken /\ op'.token # lastDeletedToken[op'.c]
              THEN UNCHANGED <<lastDeleted, lastDeletedToken>>
              ELSE /\ lastDeleted'[op'.c] = NoTask
                   /\ lastDeletedToken'[op'.c] = NoToken ]_vars

(* C10 witness: clearLastDeleted with the buffered token has emptied a     *)
(* buffer that held a deleted task, and the task is not back in the list.  *)
C10_Witness ==
    /\ op.name = "clearLastDeleted"
    /\ op.acted
    /\ op.token # NoToken
    /\ lastDeleted[op.c] = NoTask
    /\ lastDeletedToken[op.c] = NoToken
    /\ \E d \in issued[op.c] :
          /\ d.fate = "confirmed"
          /\ d.token = op.token
          /\ ~HasId(tasks[op.c], d.task.id)

---------------------------------------------------------------------------
(* Claims about the edits, checked under EditSpec *)

(* C11 (as claimed): in every reachable state every task of the list and   *)
(* the task held in the deletion buffer have timeTaken > 0.                *)
C11_TimeTakenPositive ==
    \A c \in Consumers :
        /\ \A i \in 1..Len(tasks[c]) : GtZero(tasks[c][i].timeTaken)
        /\ lastDeleted[c] # NoTask => GtZero(lastDeleted[c][1].timeTaken)

(* The patch {status: 'Done'} *)
DonePatch == Patch({"status"}, NoId, "Done", 0, NoTime)

(* C12 (as claimed): updateTask(id, {status: 'Done'}) sets completedAt on  *)
(* every task with that id that has none, and leaves a completedAt that is *)
(* already set as it is.                                                   *)
C12_DoneStampsOnce ==
    [][(op'.name = "updateTask" /\ op'.arg = DonePatch) =>
          /\ Len(tasks'[op'.c]) = Len(tasks[op'.c])
          /\ \A i \in 1..Len(tasks[op'.c]) :
                tasks[op'.c][i].id = op'.id =>
                   IF tasks[op'.c][i].completedAt = NoTime
                   THEN tasks'[op'.c][i].completedAt # NoTime
                   ELSE tasks'[op'.c][i].completedAt
                           = tasks[op'.c][i].completedAt]_vars

(* C12 (amended): updateTask(id, {status: 'Done'}) sets completedAt on     *)
(* every task with that id that is not Done and has none, and leaves a     *)
(* completedAt that is already set as it is.                               *)
C12_DoneStampsOnTransition ==
    [][(op'.name = "updateTask" /\ op'.arg = DonePatch) =>
          /\ Len(tasks'[op'.c]) = Len(tasks[op'.c])
          /\ \A i \in 1..Len(tasks[op'.c]) :
                tasks[op'.c][i].id = op'.id =>
                   /\ tasks'[op'.c][i].status = "Done"
                   /\ IF tasks[op'.c][i].completedAt # NoTime
                      THEN tasks'[op'.c][i].completedAt
                              = tasks[op'.c][i].completedAt
                      ELSE tasks[op'.c][i].status # "Done"
                              => tasks'[op'.c][i].completedAt # NoTime]_vars

(* The loaded task 1, not Done and without completedAt, has been stamped   *)
(* by {status: 'Done'} at the later of the two times.                      *)
C12_Witness ==
    /\ op.name = "updateTask"
    /\ op.arg = DonePatch
    /\ op.id = 1
    /\ ~loading[1]
    /\ \E i \in 1..Len(tasks[1]) :
          /\ tasks[1][i].id = 1
          /\ tasks[1][i].status = "Done"
          /\ tasks[1][i].createdAt = RawA.createdAt
          /\ tasks[1][i].completedAt = Epoch + 1

Present(t) == t.completedAt # NoTime

(* C13 (as claimed): a task has completedAt if and only if its status has  *)
(* been Done at some point. Step by step: a task assigned by the load or   *)
(* appended by addTask has completedAt iff it is Done, and after an        *)
(* updateTask a task has completedAt iff it had it before or is Done now.  *)
C13_CompletedIffEverDone ==
    [][/\ (op'.name = "resume" /\ op'.acted
           /\ promises[triggers[op'.t].promise].status = "fulfilled") =>
             \A i \in 1..Len(tasks'[op'.c]) :
                Present(tasks'[op'.c][i]) <=> tasks'[op'.c][i].status = "Done"
       /\ op'.name = "addTask" =>
             LET added == tasks'[op'.c][Len(tasks'[op'.c])]
             IN Present(added) <=> added.status = "Done"
       /\ op'.name = "updateTask" =>
             \A i \in 1..Len(tasks[op'.c]) :
                Present(tasks'[op'.c][i])
                   <=> (Present(tasks[op'.c][i])
                        \/ tasks'[op'.c][i].status = "Done")]_vars

(* C13 (amended): a Done task assigned by the load has completedAt; a task *)
(* appended by addTask has completedAt iff it is Done; an updateTask whose *)
(* patch carries no completedAt keeps a completedAt that is present, also  *)
(* when the status leaves Done, and sets one exactly when the status       *)
(* passes from not Done to Done; a patch that carries completedAt decides  *)
(* it: the task gets the value of the patch, or, when the patch clears it, *)
(* a value only if the status passes from not Done to Done.                *)
C13_CompletedAtUnlessPatched ==
    [][/\ (op'.name = "resume" /\ op'.acted
           /\ promises[triggers[op'.t].promise].status = "fulfilled") =>
             \A i \in 1..Len(tasks'[op'.c]) :
                tasks'[op'.c][i].status = "Done" => Present(tasks'[op'.c][i])
       /\ op'.name = "addTask" =>
             LET added == tasks'[op'.c][Len(tasks'[op'.c])]
             IN Present(added) <=> added.status = "Done"
       /\ op'.name = "updateTask" =>
             \A i \in 1..Len(tasks[op'.c]) :
                LET old == tasks[op'.c][i]
                    new == tasks'[op'.c][i]
                    becomesDone == old.status # "Done" /\ new.status = "Done"
                IN IF old.id # op'.id
                   THEN new = old
                   ELSE IF "completedAt" \in op'.arg.has
                           /\ op'.arg.completedAt # NoTime
                   THEN new.completedAt = op'.arg.completedAt
                   ELSE IF "completedAt" \in op'.arg.has
                   THEN Present(new) <=> becomesDone
                   ELSE IF Present(old)
                   THEN new.completedAt = old.completedAt
                   ELSE Present(new) <=> becomesDone]_vars

(* A task that was Done has been moved back to Todo by updateTask and      *)
(* still has its completedAt.                                              *)
C13_Witness ==
    /\ op.name = "updateTask"
    /\ op.arg = Patch({"status"}, NoId, "Todo", 0, NoTime)
    /\ \E i \in 1..Len(tasks[1]) :
          /\ tasks[1][i].id = op.id
          /\ tasks[1][i].status = "Todo"
          /\ Present(tasks[1][i])

---------------------------------------------------------------------------
(* Further claims about one consumer, checked under SoloSpec *)

(* C16 (as claimed): after every step no two tasks of a list have the same *)
(* id, and updateTask changes the id of no task.                           *)
C16_IdsUniqueAndStable ==
    [][/\ \A c \in Consumers : \A i, j \in 1..Len(tasks'[c]) :
             tasks'[c][i].id = tasks'[c][j].id => i = j
       /\ op'.name = "updateTask" =>
             \A i \in 1..Len(tasks[op'.c]) :
                tasks'[op'.c][i].id = tasks[op'.c][i].id]_vars

(* C17 (as claimed): in every reachable state lastDeleted is null if and   *)
(* only if lastDeletedToken is null.                                       *)
C17_BufferEmptyOrBuffered ==
    \A c \in Consumers : lastDeleted[c] = NoTask <=> lastDeletedToken[c] = NoToken

(* C18: the token a deleteTask stores differs from the token stored before *)
(* and from the token of every earlier deletion; an undoDelete(tok) that   *)
(* acts re-appends the task removed by the one deletion that got tok, and  *)
(* a clearLastDeleted(tok) that acts empties a buffer that holds tok and,  *)
(* if it holds a task, the task of the deletion that got tok; that         *)
(* deletion is the most recent one, neither overwritten nor settled.       *)
C18_TokensIdentifyDeletions ==
    [][/\ op'.name = "deleteTask" =>
             /\ lastDeletedToken'[op'.c] # NoToken
             /\ lastDeletedToken'[op'.c] # lastDeletedToken[op'.c]
             /\ \A d \in issued[op'.c] : d.token # lastDeletedToken'[op'.c]
       /\ (op'.name = "undoDelete" /\ op'.acted /\ op'.token # NoToken) =>
             \E d \in issued[op'.c] :
                /\ d.token = op'.token
                /\ d.fate = "buffered"
                /\ \A e \in issued[op'.c] : e.token = d.token => e = d
                /\ tasks'[op'.c] = Append(tasks[op'.c], d.task)
       /\ (op'.name = "clearLastDeleted" /\ op'.acted /\ op'.token # NoToken) =>
             /\ lastDeletedToken[op'.c] = op'.token
             /\ lastDeleted[op'.c] # NoTask =>
                   \E d \in issued[op'.c] :
                      /\ d.token = op'.token
                      /\ d.fate = "buffered"
                      /\ \A e \in issued[op'.c] : e.token = d.token => e = d
                      /\ lastDeleted[op'.c] = <<d.task>>]_vars

(* Two deletions have removed a task each; undoDelete with the token of    *)
(* the second has restored the second, and the first stays overwritten.    *)
C18_Witness ==
    /\ op.name = "undoDelete"
    /\ op.acted
    /\ op.token # NoToken
    /\ \E d, e \in issued[1] :
          /\ d.fate = "overwritten"
          /\ e.fate = "restored"
          /\ e.token = op.token
          /\ d.token # e.token
          /\ HasId(tasks[1], e.task.id)
          /\ ~HasId(tasks[1], d.task.id)

(* C20: when the waiter of an interested trigger resumes on a fulfilled    *)
(* promise, the task list of its consumer becomes exactly the value of the *)
(* promise, whatever it held, and the deletion buffer of every consumer    *)
(* keeps its task and its token.                                           *)
C20_LoadReplacesList ==
    [][(op'.name = "resume" /\ op'.acted
          /\ promises[triggers[op'.t].promise].status = "fulfilled") =>
            /\ tasks'[op'.c] = promises[triggers[op'.t].promise].value
            /\ \A c \in Consumers \ {op'.c} : tasks'[c] = tasks[c]
            /\ lastDeleted' = lastDeleted
            /\ lastDeletedToken' = lastDeletedToken]_vars

(* Tasks were added and one of them deleted while the load was pending;    *)
(* the load has resolved: the list is the loaded data, with none of the    *)
(* added tasks, and the buffer still holds the deleted task.               *)
C20_Witness ==
    /\ op.name = "resume"
    /\ op.acted
    /\ opCount = MaxOps
    /\ promises[1].status = "fulfilled"
    /\ tasks[1] = promises[1].value
    /\ lastDeleted[1] # NoTask
    /\ lastDeletedToken[1] # NoToken
    /\ lastDeleted[1][1].createdAt \in Times
    /\ \A i \in 1..Len(tasks[1]) : tasks[1][i].createdAt \notin Times

---------------------------------------------------------------------------
(* Further claims about the load, checked under Spec *)

(* The request of the last step answered with a body. *)
Answered == op.name \in {"resolve", "reject"} /\ op.arg.kind = "ok"

(* The waiter of the last step assigned the data of its promise. *)
AssignedBy(p) ==
    /\ op.name = "resume"
    /\ op.acted
    /\ triggers[op.t].promise = p
    /\ promises[p].status = "fulfilled"

(* C14 (as claimed): a request that answers with an array of records,      *)
(* well-formed or not, resolves with one Task for each record; it never    *)
(* fails.                                                                  *)
C14_MalformedNeverFails ==
    (Answered /\ op.arg.body.isArray /\ op.arg.body.items # <<>>) =>
        /\ op.name = "resolve"
        /\ Len(promises[op.t].value) = Len(op.arg.body.items)

(* C15 (as claimed): a request that answers with an empty array or with no *)
(* array resolves with the FallbackCount records of the fallback batch,    *)
(* and the consumer a waiter assigns them to has them as its task list     *)
(* with error = null.                                                      *)
C15_FallbackIsSuccess ==
    /\ (Answered /\ (~op.arg.body.isArray \/ op.arg.body.items = <<>>)) =>
          /\ op.name = "resolve"
          /\ promises[op.t].value = generateSalesTasks(FallbackCount, Epoch)
    /\ \A p \in 1..Len(promises) :
          (AssignedBy(p)
             /\ promises[p].value = generateSalesTasks(FallbackCount, Epoch)) =>
              /\ tasks[op.c] = promises[p].value
              /\ ~loading[op.c]
              /\ error[op.c] = NoError

(* The part of C15 that is about the fallback alone: the request resolves  *)
(* with the batch, and the waiter assigns it and sets no error.            *)
C15_FallbackAssigned ==
    [][/\ (op'.name \in {"resolve", "reject"} /\ op'.arg.kind = "ok"
           /\ (~op'.arg.body.isArray \/ op'.arg.body.items = <<>>)) =>
             /\ op'.name = "resolve"
             /\ Len(promises'[op'.t].value) = FallbackCount
       /\ (op'.name = "resume" /\ op'.acted
           /\ promises[triggers[op'.t].promise].status = "fulfilled") =>
             /\ tasks'[op'.c] # <<>>
             /\ error'[op'.c] = error[op'.c]]_vars

(* C19: the cached promise changes in two kinds of step only: a run of the *)
(* effect that finds no cached promise caches the pending promise it       *)
(* creates, and the rejection of the promise that is cached sets it back   *)
(* to none. A fulfilment, a cleanup and a resuming waiter leave it as it   *)
(* is, and the rejection of a promise never removes another promise.       *)
C19_HandleChangesAtCreationAndFailure ==
    [][/\ tasksFetchPromise' # tasksFetchPromise =>
             \/ /\ op'.name = "effect"
                /\ tasksFetchPromise = NoPromise
                /\ Len(promises') = Len(promises) + 1
                /\ tasksFetchPromise' = Len(promises')
                /\ promises'[tasksFetchPromise'].status = "pending"
             \/ /\ op'.name = "reject"
                /\ tasksFetchPromise = op'.t
                /\ tasksFetchPromise' = NoPromise
       /\ op'.name = "reject" => tasksFetchPromise = op'.t
       /\ op'.name \in {"resolve", "cleanup", "resume"} =>
             tasksFetchPromise' = tasksFetchPromise]_vars

(* A first load failed and was reset, a second one was created and         *)
(* fulfilled, and a cleanup has just run: the second promise stays cached. *)
C19_Witness ==
    /\ op.name = "cleanup"
    /\ Len(promises) = 2
    /\ promises[1].status = "rejected"
    /\ promises[2].status = "fulfilled"
    /\ tasksFetchPromise = 2
    /\ \E t \in 1..Len(triggers) :
          triggers[t].promise = 2 /\ ~triggers[t].isMounted

=============================================================================
